---- MODULE Spec2Model ----
(***************************************************************************)
(* Model of src/kzg_proof.rs (kzg-rs): batch inversion, barycentric        *)
(* evaluation of a polynomial in evaluation form, validation of batched    *)
(* curve points and the three public verification entry points.            *)
(*                                                                         *)
(* The scalar field is scaled down to the prime field of order MODULUS and *)
(* the evaluation domain to NUM_FIELD_ELEMENTS_PER_BLOB roots of unity of  *)
(* that field.  G1 points are represented by their discrete logarithm with *)
(* respect to the generator, G2 likewise, so that the pairing equation     *)
(* e(a*G1, b*G2) == e(c*G1, d*G2) is a*b == c*d in the scalar field.        *)
(***************************************************************************)
EXTENDS Integers, Sequences, FiniteSets, TLC

VARIABLES pc, fn, a, out0, out, polynomial, x, commitments, proofs,
          blobs, commitments_bytes, proofs_bytes, z_bytes, y_bytes,
          ret, steps

vars == <<pc, fn, a, out0, out, polynomial, x, commitments, proofs,
          blobs, commitments_bytes, proofs_bytes, z_bytes, y_bytes,
          ret, steps>>

(* ------------------------------ bounds --------------------------------- *)
MaxLen == 2      \* longest input of batch_inversion that is explored
MaxOut == 2      \* initial contents of the output buffer range over 0..MaxOut
MaxPts == 3      \* longest list handed to validate_batched_input
MaxBatch == 2    \* longest list handed to verify_blob_kzg_proof_batch

(* ------------------------- program constants --------------------------- *)
MODULUS == 13
NUM_FIELD_ELEMENTS_PER_BLOB == 4
ROOT_OF_UNITY == 5      \* a primitive NUM_FIELD_ELEMENTS_PER_BLOB-th root
TAU == 3                \* discrete log of kzg_settings.g2_points[1]
BYTE_BASE == 4          \* one "byte" of a Bytes32 holds a digit below this
BadBytes48 == 0 - 1     \* a Bytes48 that from_compressed rejects

Scalars == 0 .. (MODULUS - 1)

(* --------------------------- field arithmetic -------------------------- *)
FAdd(p, q) == (p + q) % MODULUS
FSub(p, q) == (p - q + MODULUS) % MODULUS
FMul(p, q) == (p * q) % MODULUS

RECURSIVE FPow(_, _)
FPow(p, e) == IF e = 0 THEN 1 ELSE FMul(p, FPow(p, e - 1))

\* Scalar::invert: Some(p^(MODULUS-2)) for p # 0, None for p = 0.
FInvertIsSome(p) == p # 0
FInvert(p) == FPow(p, MODULUS - 2)

(* ------------------------------ results -------------------------------- *)
OkUnit         == [kind |-> "Ok",    err |-> "",  b |-> TRUE, s |-> 0]
OkBool(v)      == [kind |-> "Ok",    err |-> "",  b |-> v,    s |-> 0]
OkScalar(v)    == [kind |-> "Ok",    err |-> "",  b |-> TRUE, s |-> v]
Err(e)         == [kind |-> "Err",   err |-> e,   b |-> FALSE, s |-> 0]
Panic(e)       == [kind |-> "Panic", err |-> e,   b |-> FALSE, s |-> 0]

ErrAlias      == Err("BadArgs: Destination is the same as source")
ErrZeroInput  == Err("BadArgs: Zero input")
ErrParseG1    == Err("BadArgs: Failed to parse G1Affine from bytes")
ErrParseScalar == Err("BadArgs: Failed to parse G1Affine from bytes")
ErrBadCommitment == Err("BadArgs: Invalid commitment")
ErrBadProof   == Err("BadArgs: Invalid proof")
ErrPolyLen    == Err("InvalidBytesLength: The polynomial length is incorrect")
ErrCommitmentsLen == Err("InvalidBytesLength: Invalid commitments length")
ErrProofsLen  == Err("InvalidBytesLength: Invalid proofs length")
ErrBlobDecode == Err("BadArgs: blob element is not a canonical scalar")

(* --------------------------- batch_inversion --------------------------- *)
\* Forward pass: out[i] = accumulator; accumulator *= a[i]  (i = from .. len)
RECURSIVE InvForward(_, _, _, _, _)
InvForward(o, in, accumulator, i, len) ==
  IF i > len THEN [out |-> o, accumulator |-> accumulator]
  ELSE InvForward([o EXCEPT ![i] = accumulator], in,
                  FMul(accumulator, in[i]), i + 1, len)

\* Backward pass: out[i] *= accumulator; accumulator *= a[i]  (i = from .. 1)
RECURSIVE InvBackward(_, _, _, _)
InvBackward(o, in, accumulator, i) ==
  IF i < 1 THEN o
  ELSE InvBackward([o EXCEPT ![i] = FMul(o[i], accumulator)], in,
                   FMul(accumulator, in[i]), i - 1)

\* The slice comparison `a == out` of the source compares contents.
SameSlice(in, o) == in = o

\* Returns the result, the output buffer after the call and whether the
\* field inversion of the accumulated product was performed.
batch_inversion(o, in, len) ==
  IF SameSlice(in, o)
  THEN [res |-> ErrAlias, out |-> o, inverted |-> FALSE]
  ELSE LET f == InvForward(o, in, 1, 1, len) IN
       IF f.accumulator = 0
       THEN [res |-> ErrZeroInput, out |-> f.out, inverted |-> FALSE]
       ELSE [res |-> OkUnit,
             out |-> InvBackward(f.out, in, FInvert(f.accumulator), len),
             inverted |-> TRUE]

(* ------------------ evaluate_polynomial_in_evaluation_form ------------- *)
\* kzg_settings.roots_of_unity: the evaluation domain, N distinct N-th roots.
roots_of_unity ==
  [i \in 1 .. NUM_FIELD_ELEMENTS_PER_BLOB |-> FPow(ROOT_OF_UNITY, i - 1)]

\* vec![Scalar::default(); NUM_FIELD_ELEMENTS_PER_BLOB]
DefaultScalars == [i \in 1 .. NUM_FIELD_ELEMENTS_PER_BLOB |-> 0]

\* First loop: the index of the first root equal to x, or 0 when the loop
\* runs to completion.
\* As FindRoot, with a loop that stops one index early.
RECURSIVE FindRoot_stops_early(_, _)
FindRoot_stops_early(xx, i) ==
  IF i >= NUM_FIELD_ELEMENTS_PER_BLOB THEN 0
  ELSE IF xx = roots_of_unity[i] THEN i
  ELSE FindRoot_stops_early(xx, i + 1)

RECURSIVE FindRoot(_, _)
FindRoot(xx, i) ==
  IF i > NUM_FIELD_ELEMENTS_PER_BLOB THEN 0
  ELSE IF xx = roots_of_unity[i] THEN i
  ELSE FindRoot(xx, i + 1)

\* Second loop: out += (inverses[i] * roots_of_unity[i]) * polynomial[i]
RECURSIVE EvalSum(_, _, _, _)
EvalSum(inverses, poly, i, acc) ==
  IF i > NUM_FIELD_ELEMENTS_PER_BLOB THEN acc
  ELSE EvalSum(inverses, poly, i + 1,
               FAdd(acc, FMul(FMul(inverses[i], roots_of_unity[i]), poly[i])))

\* As EvalScale, without the division by N.
EvalScale_without_n(sum, xx) ==
  FMul(sum, FSub(FPow(xx, NUM_FIELD_ELEMENTS_PER_BLOB), 1))

\* Scaling of the sum by 1/N and by x^N - 1.
EvalScale(sum, xx) ==
  FMul(FMul(sum, FInvert(NUM_FIELD_ELEMENTS_PER_BLOB % MODULUS)),
       FSub(FPow(xx, NUM_FIELD_ELEMENTS_PER_BLOB), 1))

\* Returns the result and the list of calls made to batch_inversion.
evaluate_polynomial_in_evaluation_form(poly, xx) ==
  IF Len(poly) # NUM_FIELD_ELEMENTS_PER_BLOB
  THEN [res |-> ErrPolyLen, calls |-> <<>>]
  ELSE LET hit == FindRoot(xx, 1) IN
       IF hit # 0
       THEN [res |-> OkScalar(poly[hit]), calls |-> <<>>]
       ELSE LET inverses_in == [i \in 1 .. NUM_FIELD_ELEMENTS_PER_BLOB |->
                                  FSub(xx, roots_of_unity[i])]
                inv == batch_inversion(DefaultScalars, inverses_in,
                                       NUM_FIELD_ELEMENTS_PER_BLOB)
            IN IF inv.res.kind # "Ok"
               THEN [res |-> inv.res, calls |-> <<"batch_inversion">>]
               ELSE [res |-> OkScalar(EvalScale(EvalSum(inv.out, poly, 1, 0), xx)),
                     calls |-> <<"batch_inversion">>]

(* ------------------------- validate_batched_input ---------------------- *)
\* A G1Affine value: its kind and, for a point of the group, its discrete
\* logarithm k with respect to the generator.
G1Identity == [kind |-> "identity", k |-> 0]
G1OnCurve(k) == [kind |-> "oncurve", k |-> k]
G1OffCurve == [kind |-> "offcurve", k |-> 0]

is_identity(pt) == pt.kind = "identity"
is_on_curve(pt) == pt.kind # "offcurve"

InvalidPoint(pt) == ~is_identity(pt) /\ ~is_on_curve(pt)

\* As validate_batched_input, with the proofs reported first.
validate_batched_input_proofs_first(cs, ps) ==
  LET invalid_commitment == \E i \in 1 .. Len(cs) : InvalidPoint(cs[i])
      invalid_proof == \E i \in 1 .. Len(ps) : InvalidPoint(ps[i])
  IN IF invalid_proof THEN ErrBadProof
     ELSE IF invalid_commitment THEN ErrBadCommitment
     ELSE OkUnit

validate_batched_input(cs, ps) ==
  LET invalid_commitment == \E i \in 1 .. Len(cs) : InvalidPoint(cs[i])
      invalid_proof == \E i \in 1 .. Len(ps) : InvalidPoint(ps[i])
  IN IF invalid_commitment THEN ErrBadCommitment
     ELSE IF invalid_proof THEN ErrBadProof
     ELSE OkUnit

(* ------------------------------ decoding ------------------------------- *)
\* G1Affine::from_compressed: None for a rejected encoding, otherwise the
\* point, which is the identity or a point of the group.
from_compressed(bytes) ==
  IF bytes = BadBytes48 THEN [some |-> FALSE, pt |-> G1Identity]
  ELSE IF bytes = 0 THEN [some |-> TRUE, pt |-> G1Identity]
  ELSE [some |-> TRUE, pt |-> G1OnCurve(bytes)]

to_compressed(pt) == pt.k

safe_g1_affine_from_bytes(bytes) ==
  LET g1 == from_compressed(bytes) IN
  IF ~g1.some THEN [res |-> ErrParseG1, pt |-> G1Identity]
  ELSE [res |-> OkUnit, pt |-> g1.pt]

\* A Bytes32 is a big-endian sequence of digits below BYTE_BASE.
Reverse(sq) == [i \in 1 .. Len(sq) |-> sq[Len(sq) + 1 - i]]

RECURSIVE LittleEndianValue(_, _)
LittleEndianValue(sq, i) ==
  IF i > Len(sq) THEN 0
  ELSE sq[i] + BYTE_BASE * LittleEndianValue(sq, i + 1)

\* Scalar::from_bytes: little-endian, None unless below the modulus.
scalar_from_bytes(lendian) ==
  LET v == LittleEndianValue(lendian, 1) IN
  IF v >= MODULUS THEN [some |-> FALSE, s |-> 0] ELSE [some |-> TRUE, s |-> v]

safe_scalar_affine_from_bytes(bytes) ==
  LET scalar == scalar_from_bytes(Reverse(bytes)) IN
  IF ~scalar.some THEN [res |-> ErrParseScalar, s |-> 0]
  ELSE [res |-> OkUnit, s |-> scalar.s]

\* Blob::as_polynomial: every element must be a canonical scalar.
as_polynomial(blob) ==
  IF \E i \in 1 .. Len(blob) : blob[i] >= MODULUS
  THEN [res |-> ErrBlobDecode, poly |-> <<>>]
  ELSE [res |-> OkUnit, poly |-> blob]

(* ---------------------------- compute_challenge ------------------------ *)
RECURSIVE BlobMix(_, _)
BlobMix(blob, i) ==
  IF i > Len(blob) THEN 0 ELSE (i + 1) * blob[i] + BlobMix(blob, i + 1)

\* Stand-in for Sha256::digest over the transcript: a fixed function of the
\* blob bytes and the compressed commitment, with values below
\* BYTE_BASE * BYTE_BASE.
Sha256Digest(blob, cbytes) ==
  (3 * BlobMix(blob, 1) + 7 * cbytes + 5) % (BYTE_BASE * BYTE_BASE)

\* Scalar::from_raw reduces the assembled words modulo the modulus.
scalar_from_bytes_unchecked(digest) == digest % MODULUS

compute_challenge(blob, commitment) ==
  scalar_from_bytes_unchecked(Sha256Digest(blob, to_compressed(commitment)))

(* --------------------------- pairing equation -------------------------- *)
\* pairings_verify(a1, a2, b1, b2): e(a1, a2) == e(b1, b2), on discrete logs.
pairings_verify(a1, a2, b1, b2) == FMul(a1, a2) = FMul(b1, b2)

verify_kzg_proof_impl(commitment, z, y, proof) ==
  LET x_minus_z == FSub(TAU, z)
      p_minus_y == FSub(commitment.k, y)
  IN OkBool(pairings_verify(p_minus_y, 1, proof.k, x_minus_z))

(* ----------------------------- entry points --------------------------- *)
verify_kzg_proof(commitment_bytes, zb, yb, proof_bytes) ==
  LET z == safe_scalar_affine_from_bytes(zb)
      y == safe_scalar_affine_from_bytes(yb)
      commitment == safe_g1_affine_from_bytes(commitment_bytes)
      proof == safe_g1_affine_from_bytes(proof_bytes)
  IN IF z.res.kind # "Ok" THEN z.res
     ELSE IF y.res.kind # "Ok" THEN y.res
     ELSE IF commitment.res.kind # "Ok" THEN commitment.res
     ELSE IF proof.res.kind # "Ok" THEN proof.res
     ELSE LET x_minus_z == FSub(TAU, FMul(1, z.s))
              p_minus_y == FSub(commitment.pt.k, FMul(1, y.s))
          IN OkBool(FMul(p_minus_y, 1) = FMul(proof.pt.k, x_minus_z))

verify_blob_kzg_proof(blob, commitment_bytes, proof_bytes) ==
  LET commitment == safe_g1_affine_from_bytes(commitment_bytes)
      poly == as_polynomial(blob)
      proof == safe_g1_affine_from_bytes(proof_bytes)
  IN IF commitment.res.kind # "Ok" THEN commitment.res
     ELSE IF poly.res.kind # "Ok" THEN poly.res
     ELSE IF proof.res.kind # "Ok" THEN proof.res
     ELSE LET evaluation_challenge == compute_challenge(blob, commitment.pt)
              y == evaluate_polynomial_in_evaluation_form(poly.poly,
                                                          evaluation_challenge)
          IN IF y.res.kind # "Ok" THEN y.res
             ELSE verify_kzg_proof_impl(commitment.pt, evaluation_challenge,
                                        y.res.s, proof.pt)

\* The body of the source is todo!(), which panics when reached.
verify_kzg_proof_batch(cs, zs, ys, ps) == Panic("not yet implemented")

\* .iter().map(safe_g1_affine_from_bytes).collect::<Result<Vec<_>, _>>()
RECURSIVE DecodeAll(_, _, _)
DecodeAll(bytes, i, acc) ==
  IF i > Len(bytes) THEN [res |-> OkUnit, pts |-> acc]
  ELSE LET g1 == safe_g1_affine_from_bytes(bytes[i]) IN
       IF g1.res.kind # "Ok" THEN [res |-> g1.res, pts |-> <<>>]
       ELSE DecodeAll(bytes, i + 1, Append(acc, g1.pt))

RECURSIVE ChallengesLoop(_, _, _, _, _)
ChallengesLoop(bs, cs, i, zs, ys) ==
  IF i > Len(bs) THEN [res |-> OkUnit, zs |-> zs, ys |-> ys]
  ELSE LET poly == as_polynomial(bs[i]) IN
       IF poly.res.kind # "Ok" THEN [res |-> poly.res, zs |-> <<>>, ys |-> <<>>]
       ELSE LET evaluation_challenge == compute_challenge(bs[i], cs[i])
                y == evaluate_polynomial_in_evaluation_form(poly.poly,
                                                            evaluation_challenge)
            IN IF y.res.kind # "Ok"
               THEN [res |-> y.res, zs |-> <<>>, ys |-> <<>>]
               ELSE ChallengesLoop(bs, cs, i + 1,
                                   Append(zs, evaluation_challenge),
                                   Append(ys, y.res.s))

compute_challenges_and_evaluate_polynomial(bs, cs) ==
  ChallengesLoop(bs, cs, 1, <<>>, <<>>)

\* The part of verify_blob_kzg_proof_batch after the two special cases.
\* Returns the result and the steps that were executed, in order.
BatchGeneral(bs, cbs, pbs) ==
  IF Len(bs) # Len(cbs)
  THEN [res |-> ErrCommitmentsLen, steps |-> <<"length_check">>]
  ELSE IF Len(bs) # Len(pbs)
  THEN [res |-> ErrProofsLen, steps |-> <<"length_check">>]
  ELSE LET cs == DecodeAll(cbs, 1, <<>>) IN
  IF cs.res.kind # "Ok"
  THEN [res |-> cs.res, steps |-> <<"length_check", "decode">>]
  ELSE LET ps == DecodeAll(pbs, 1, <<>>) IN
  IF ps.res.kind # "Ok"
  THEN [res |-> ps.res, steps |-> <<"length_check", "decode">>]
  ELSE LET v == validate_batched_input(cs.pts, ps.pts) IN
  IF v.kind # "Ok"
  THEN [res |-> v,
        steps |-> <<"length_check", "decode", "validate_batched_input">>]
  ELSE LET ce == compute_challenges_and_evaluate_polynomial(bs, cs.pts) IN
  IF ce.res.kind # "Ok"
  THEN [res |-> ce.res,
        steps |-> <<"length_check", "decode", "validate_batched_input",
                    "compute_challenges_and_evaluate_polynomial">>]
  ELSE [res |-> verify_kzg_proof_batch(cs.pts, ce.zs, ce.ys, ps.pts),
        steps |-> <<"length_check", "decode", "validate_batched_input",
                    "compute_challenges_and_evaluate_polynomial",
                    "verify_kzg_proof_batch">>]

\* As verify_blob_kzg_proof_batch, without the single-blob shortcut.
verify_blob_kzg_proof_batch_no_shortcut(bs, cbs, pbs) ==
  IF Len(bs) = 0
  THEN [res |-> OkBool(TRUE), steps |-> <<>>]
  ELSE BatchGeneral(bs, cbs, pbs)

verify_blob_kzg_proof_batch(bs, cbs, pbs) ==
  IF Len(bs) = 0
  THEN [res |-> OkBool(TRUE), steps |-> <<>>]
  ELSE IF Len(bs) = 1
  THEN IF Len(cbs) < 1 \/ Len(pbs) < 1
       THEN [res |-> Panic("index out of bounds"), steps |-> <<>>]
       ELSE [res |-> verify_blob_kzg_proof(bs[1], cbs[1], pbs[1]),
             steps |-> <<"verify_blob_kzg_proof">>]
  ELSE BatchGeneral(bs, cbs, pbs)

(* ------------------------------- inputs -------------------------------- *)
SeqsUpTo(S, n) == UNION {[1 .. k -> S] : k \in 0 .. n}

Bytes32Set == [1 .. 2 -> 0 .. (BYTE_BASE - 1)]
Bytes48Set == {BadBytes48} \cup Scalars
Bytes48Sample == {BadBytes48, 3, 5}
BlobSample == {<<1, 2, 3, 4>>, <<0, 0, 0, 5>>, <<13, 0, 0, 0>>}
G1Sample == {G1Identity, G1OnCurve(1), G1OffCurve}
Polynomials == [1 .. NUM_FIELD_ELEMENTS_PER_BLOB -> Scalars]
ShortPolynomials == {<<>>, <<1>>}

(* ------------------------------ the machine ---------------------------- *)
Init ==
  /\ pc = "idle" /\ fn = ""
  /\ a = <<>> /\ out0 = <<>> /\ out = <<>>
  /\ polynomial = <<>> /\ x = 0
  /\ commitments = <<>> /\ proofs = <<>>
  /\ blobs = <<>> /\ commitments_bytes = <<>> /\ proofs_bytes = <<>>
  /\ z_bytes = <<>> /\ y_bytes = <<>>
  /\ ret = OkUnit /\ steps = <<>>

CallBatchInversion ==
  /\ pc = "idle"
  /\ \E len \in 1 .. MaxLen :
       \E in \in [1 .. len -> Scalars], o \in [1 .. len -> 0 .. MaxOut] :
         LET r == batch_inversion(o, in, len) IN
         /\ a' = in /\ out0' = o /\ out' = r.out
         /\ ret' = r.res
         /\ steps' = IF r.inverted THEN <<"invert">> ELSE <<>>
  /\ pc' = "done" /\ fn' = "batch_inversion"
  /\ UNCHANGED <<polynomial, x, commitments, proofs, blobs, commitments_bytes,
                 proofs_bytes, z_bytes, y_bytes>>

CallEvaluate ==
  /\ pc = "idle"
  /\ \E poly \in Polynomials \cup ShortPolynomials, xx \in Scalars :
       LET r == evaluate_polynomial_in_evaluation_form(poly, xx) IN
       /\ polynomial' = poly /\ x' = xx
       /\ ret' = r.res /\ steps' = r.calls
  /\ pc' = "done" /\ fn' = "evaluate_polynomial_in_evaluation_form"
  /\ UNCHANGED <<a, out0, out, commitments, proofs, blobs, commitments_bytes,
                 proofs_bytes, z_bytes, y_bytes>>

CallValidate ==
  /\ pc = "idle"
  /\ \E cs \in SeqsUpTo(G1Sample, MaxPts), ps \in SeqsUpTo(G1Sample, MaxPts) :
       /\ commitments' = cs /\ proofs' = ps
       /\ ret' = validate_batched_input(cs, ps)
  /\ steps' = <<>>
  /\ pc' = "done" /\ fn' = "validate_batched_input"
  /\ UNCHANGED <<a, out0, out, polynomial, x, blobs, commitments_bytes,
                 proofs_bytes, z_bytes, y_bytes>>

CallVerifyKzgProof ==
  /\ pc = "idle"
  /\ \E cb \in Bytes48Sample, pb \in Bytes48Sample,
        zb \in Bytes32Set, yb \in Bytes32Set :
       /\ commitments_bytes' = <<cb>> /\ proofs_bytes' = <<pb>>
       /\ z_bytes' = zb /\ y_bytes' = yb
       /\ ret' = verify_kzg_proof(cb, zb, yb, pb)
  /\ steps' = <<>>
  /\ pc' = "done" /\ fn' = "verify_kzg_proof"
  /\ UNCHANGED <<a, out0, out, polynomial, x, commitments, proofs, blobs>>

CallVerifyBlobKzgProof ==
  /\ pc = "idle"
  /\ \E blob \in BlobSample, cb \in Bytes48Set, pb \in Bytes48Set :
       /\ blobs' = <<blob>>
       /\ commitments_bytes' = <<cb>> /\ proofs_bytes' = <<pb>>
       /\ ret' = verify_blob_kzg_proof(blob, cb, pb)
  /\ steps' = <<>>
  /\ pc' = "done" /\ fn' = "verify_blob_kzg_proof"
  /\ UNCHANGED <<a, out0, out, polynomial, x, commitments, proofs,
                 z_bytes, y_bytes>>

CallVerifyBlobKzgProofBatch ==
  /\ pc = "idle"
  /\ \E bs \in SeqsUpTo(BlobSample, MaxBatch),
        cbs \in SeqsUpTo(Bytes48Sample, MaxBatch),
        pbs \in SeqsUpTo(Bytes48Sample, MaxBatch) :
       LET r == verify_blob_kzg_proof_batch(bs, cbs, pbs) IN
       /\ blobs' = bs /\ commitments_bytes' = cbs /\ proofs_bytes' = pbs
       /\ ret' = r.res /\ steps' = r.steps
  /\ pc' = "done" /\ fn' = "verify_blob_kzg_proof_batch"
  /\ UNCHANGED <<a, out0, out, polynomial, x, commitments, proofs,
                 z_bytes, y_bytes>>

NextInv == CallBatchInversion
NextEval == CallEvaluate
NextVal == CallValidate
NextVerify ==
  \/ CallVerifyKzgProof
  \/ CallVerifyBlobKzgProof
  \/ CallVerifyBlobKzgProofBatch
Next == NextInv \/ NextEval \/ NextVal \/ NextVerify

SpecInv == Init /\ [][NextInv]_vars
SpecEval == Init /\ [][NextEval]_vars
SpecVal == Init /\ [][NextVal]_vars
SpecVerify == Init /\ [][NextVerify]_vars
Spec == Init /\ [][Next]_vars

(* ------------------------------ properties ----------------------------- *)
Done(f) == pc = "done" /\ fn = f
BatchDone == Done("verify_blob_kzg_proof_batch")
InvDone == Done("batch_inversion")
EvalDone == Done("evaluate_polynomial_in_evaluation_form")

SameLengths ==
  Len(blobs) = Len(commitments_bytes) /\ Len(blobs) = Len(proofs_bytes)

BatchSteps == {"length_check", "decode", "validate_batched_input",
               "compute_challenges_and_evaluate_polynomial",
               "verify_kzg_proof_batch"}

StepsTaken == {steps[i] : i \in 1 .. Len(steps)}

SingleHolds(i) ==
  verify_blob_kzg_proof(blobs[i], commitments_bytes[i], proofs_bytes[i])
    = OkBool(TRUE)

\* C1: a batch of n >= 2 items of equal list lengths whose commitments and
\* proofs all decode returns a boolean, the conjunction of the n single
\* checks.
C1_BatchIsConjunction ==
  (/\ BatchDone /\ Len(blobs) >= 2 /\ SameLengths
   /\ \A i \in 1 .. Len(blobs) :
        commitments_bytes[i] # BadBytes48 /\ proofs_bytes[i] # BadBytes48)
  => /\ ret.kind = "Ok"
     /\ ret.b = (\A i \in 1 .. Len(blobs) : SingleHolds(i))

LengthError == ret \in {ErrCommitmentsLen, ErrProofsLen}

\* C2: whenever the three lists do not all have the same length,
\* whatever the number of blobs, the call fails with the length error and no
\* step after the length check has run.
C2_AnyMismatchFails ==
  (BatchDone /\ ~SameLengths)
  => (LengthError /\ StepsTaken = {"length_check"})

\* C3: a batch of exactly one blob, one commitment and one proof has the
\* outcome of verify_blob_kzg_proof on that item, and none of the batch
\* steps runs.
C3_SingleItemDelegates ==
  (/\ BatchDone /\ Len(blobs) = 1
   /\ Len(commitments_bytes) = 1 /\ Len(proofs_bytes) = 1)
  => /\ ret = verify_blob_kzg_proof(blobs[1], commitments_bytes[1],
                                    proofs_bytes[1])
     /\ StepsTaken \cap BatchSteps = {}

C3_Witness ==
  /\ BatchDone /\ Len(blobs) = 1
  /\ Len(commitments_bytes) = 1 /\ Len(proofs_bytes) = 1
  /\ ret = OkBool(TRUE) /\ steps = <<"verify_blob_kzg_proof">>

ValidPoint(pt) == pt.kind \in {"identity", "oncurve"}
AllValid(pts) == \A i \in 1 .. Len(pts) : ValidPoint(pts[i])

\* C4: validate_batched_input reports a bad commitment whenever some
\* commitment is invalid, a bad proof exactly when all commitments are valid
\* and some proof is invalid, and Ok exactly when all points are valid.
C4_ValidateOrder ==
  Done("validate_batched_input")
  => /\ ~AllValid(commitments) => ret = ErrBadCommitment
     /\ (ret = ErrBadProof) <=> (AllValid(commitments) /\ ~AllValid(proofs))
     /\ (ret = OkUnit) <=> (AllValid(commitments) /\ AllValid(proofs))

C4_Witness ==
  /\ Done("validate_batched_input")
  /\ ~AllValid(commitments) /\ ~AllValid(proofs)
  /\ Len(proofs) >= 1 /\ ~ValidPoint(proofs[1])
  /\ ret = ErrBadCommitment

AllNonZero(sq) == \A i \in 1 .. Len(sq) : sq[i] # 0

\* C5: on nonzero inputs batch_inversion succeeds, out[i] * a[i] = 1 for all
\* i, inverting the output again gives back the input, and the input is
\* what it was.
C5_InversesOfNonZero ==
  (InvDone /\ AllNonZero(a))
  => /\ ret = OkUnit
     /\ \A i \in 1 .. Len(a) : FMul(out[i], a[i]) = 1
     /\ LET again == batch_inversion(out0, out, Len(out)) IN
          again.res = OkUnit /\ again.out = a

\* C6: an input holding a zero fails with the zero-input error without
\* reaching the field inversion, and the zero-input error is returned only
\* for an input holding a zero.
C6_ZeroInputFails ==
  /\ (InvDone /\ ~AllNonZero(a)) => (ret = ErrZeroInput /\ steps = <<>>)
  /\ (InvDone /\ ret = ErrZeroInput) => ~AllNonZero(a)

InDomain(xx) ==
  \E i \in 1 .. NUM_FIELD_ELEMENTS_PER_BLOB : xx = roots_of_unity[i]

\* C7: at a point of the evaluation domain the evaluation of a polynomial of
\* length N is the stored value at that index, and batch_inversion is not
\* called.
C7_EvaluateAtRoot ==
  (EvalDone /\ Len(polynomial) = NUM_FIELD_ELEMENTS_PER_BLOB)
  => \A i \in 1 .. NUM_FIELD_ELEMENTS_PER_BLOB :
       x = roots_of_unity[i]
         => (ret = OkScalar(polynomial[i]) /\ steps = <<>>)

C7_Witness ==
  /\ EvalDone /\ Len(polynomial) = NUM_FIELD_ELEMENTS_PER_BLOB
  /\ x = roots_of_unity[3]
  /\ polynomial[3] # polynomial[1] /\ polynomial[3] # polynomial[2]
  /\ ret = OkScalar(polynomial[3]) /\ steps = <<>>

\* The inverse of a nonzero scalar, by its defining equation.
Reciprocal(p) == CHOOSE q \in Scalars : FMul(p, q) = 1

RECURSIVE SumOver(_, _)
SumOver(f, n) == IF n = 0 THEN 0 ELSE FAdd(f[n], SumOver(f, n - 1))

RECURSIVE ProdOver(_, _)
ProdOver(f, n) == IF n = 0 THEN 1 ELSE FMul(f[n], ProdOver(f, n - 1))

Indices == 1 .. NUM_FIELD_ELEMENTS_PER_BLOB

\* (x^N - 1)/N * sum_i poly[i] * domain[i] / (x - domain[i])
Barycentric(poly, xx) ==
  FMul(FMul(FSub(FPow(xx, NUM_FIELD_ELEMENTS_PER_BLOB), 1),
            Reciprocal(NUM_FIELD_ELEMENTS_PER_BLOB % MODULUS)),
       SumOver([i \in Indices |->
                  FMul(FMul(poly[i], roots_of_unity[i]),
                       Reciprocal(FSub(xx, roots_of_unity[i])))],
               NUM_FIELD_ELEMENTS_PER_BLOB))

\* The value at xx of the polynomial of degree < N through the points
\* (domain[i], poly[i]), by Lagrange's formula.
Lagrange(poly, xx) ==
  SumOver([i \in Indices |->
             FMul(poly[i],
                  ProdOver([j \in Indices |->
                              IF j = i THEN 1
                              ELSE FMul(FSub(xx, roots_of_unity[j]),
                                        Reciprocal(FSub(roots_of_unity[i],
                                                        roots_of_unity[j])))],
                           NUM_FIELD_ELEMENTS_PER_BLOB))],
          NUM_FIELD_ELEMENTS_PER_BLOB)

DomainIsRootsOfUnity ==
  /\ \A i \in Indices : FPow(roots_of_unity[i], NUM_FIELD_ELEMENTS_PER_BLOB) = 1
  /\ \A i, j \in Indices : i # j => roots_of_unity[i] # roots_of_unity[j]

\* C8: off the evaluation domain the evaluation of a polynomial of length N
\* never fails and returns the barycentric sum, which is the value of the
\* interpolating polynomial of degree < N.
C8_EvaluateOffDomain ==
  (EvalDone /\ Len(polynomial) = NUM_FIELD_ELEMENTS_PER_BLOB /\ ~InDomain(x))
  => /\ DomainIsRootsOfUnity
     /\ ret.kind = "Ok"
     /\ ret.s = Barycentric(polynomial, x)
     /\ ret.s = Lagrange(polynomial, x)

C8_Witness ==
  /\ EvalDone /\ Len(polynomial) = NUM_FIELD_ELEMENTS_PER_BLOB
  /\ ~InDomain(x) /\ x # 0
  /\ polynomial = <<1, 2, 3, 4>>
  /\ ret.kind = "Ok" /\ ret.s # 0 /\ steps = <<"batch_inversion">>

EntryPoints == {"verify_kzg_proof", "verify_blob_kzg_proof",
                "verify_blob_kzg_proof_batch"}

\* C9: every call of a public entry point ends with Ok(bool) or Err, never
\* with a panic.
C9_EntryPointsNeverPanic ==
  (pc = "done" /\ fn \in EntryPoints) => ret.kind \in {"Ok", "Err"}

\* C10: the result of batch_inversion does not depend on the initial
\* contents of a separate output buffer of the same length: it is never the
\* aliasing error, and it is the result obtained from any other contents.
C10_OutputBufferIrrelevant ==
  InvDone
  => /\ ret # ErrAlias
     /\ \A o \in [1 .. Len(a) -> 0 .. MaxOut] :
          LET r == batch_inversion(o, a, Len(a)) IN
          r.res = ret /\ (ret = OkUnit => r.out = out)

====
